---- MODULE Spec2Model ----
(***************************************************************************)
(* Milestone countdown application (src/index.tsx): the remote milestone   *)
(* collection, the App component's subscription and one-shot migration,    *)
(* the Settings screen's editor, import and export handlers, and the       *)
(* Dashboard and Focus screens with their countdowns, progress values and  *)
(* tick intervals.                                                         *)
(*                                                                         *)
(* A JavaScript object is a TLA+ function from property names to strings;  *)
(* a property that is undefined is a name outside the function's DOMAIN.   *)
(* Date strings are drawn from the table IsoOrder, whose order is the      *)
(* lexicographic order the store's orderBy uses.  Document names handed    *)
(* out by the store are "d1", "d2", ... in creation order.                 *)
(***************************************************************************)
EXTENDS Integers, Sequences, FiniteSets, Bags, TLC

\* ---------------------------------------------------------------- bounds
\* Documents the store hands out a name for, over a whole behaviour.
MaxDocs == 2
\* Page loads (the first one and the reloads after it).
MaxStartups == 2
\* Backups downloaded, over a whole behaviour.
MaxExports == 1
\* Readings the clock can give (a second apart, in order).
MaxNow == 2
\* Navigations between the screens, over a whole behaviour.
MaxMounts == 3
\* Milestones of a set that is shown to the selection.
MaxSet == 3

\* ---------------------------------------------------------------- values
Undefined == "<undefined>"
NoRec == [x \in {} |-> ""]

Get(o, k) == IF k \in DOMAIN o THEN o[k] ELSE Undefined
\* JavaScript truthiness of a string-or-undefined value (the `||` operands).
Truthy(v) == v # Undefined /\ v # ""
Or(v, d) == IF Truthy(v) THEN v ELSE d

\* { id, ...rest } = o
StripId(o) == [k \in (DOMAIN o) \ {"id"} |-> o[k]]
\* { ...a, ...b }: b's properties win
Spread(a, b) == [k \in (DOMAIN a) \cup (DOMAIN b) |-> IF k \in DOMAIN b THEN b[k] ELSE a[k]]

fallbackImageUrl == "/images/placeholder.svg"

\* getTime() of an Invalid Date: a value apart from every time of the model.
NaN == -2000000000
\* Date.now() at reading t of the clock, in milliseconds since the first
\* reading: the readings are a tick of the intervals apart.
Ms(t) == 1000 * (t - 1)

\* The date strings of the model in lexicographic order, with the getTime()
\* of each on a device in UTC whose first clock reading is
\* 2026-02-09T08:58:59.000.
Dates ==
    <<[iso |-> "", ms |-> NaN],
      [iso |-> "2026-02-09T08:58:58", ms |-> -1000],
      [iso |-> "2026-02-09T08:58:59", ms |-> 0],
      [iso |-> "2026-02-09T08:58:59.001", ms |-> 1],
      [iso |-> "2026-02-09T08:59", ms |-> 1000],
      [iso |-> "2026-02-09T08:59:58.999", ms |-> 59999],
      [iso |-> "2026-02-09T08:59:59", ms |-> 60000],
      [iso |-> "2026-02-09T09:58:59", ms |-> 3600000],
      [iso |-> "2026-02-09T10:00", ms |-> 3661000],
      [iso |-> "2026-02-10T08:58:58.999", ms |-> 86399999],
      [iso |-> "2026-02-10T08:58:59", ms |-> 86400000],
      [iso |-> "2026-02-10T10:00:00.001", ms |-> 90061001],
      [iso |-> "2026-02-13T08:00", ms |-> 342061000],
      [iso |-> "TBD", ms |-> NaN],
      [iso |-> "Tue, 10 Feb 2026 08:00:00 GMT", ms |-> 82861000]>>
IsoOrder == [i \in 1..Len(Dates) |-> Dates[i].iso]
Rank(s) == CHOOSE i \in 1..Len(IsoOrder) : IsoOrder[i] = s

\* Date.now().toString() and new Date().toISOString() at instant t.
NowId(t) == "ts" \o ToString(t)
NowIso(t) == "iso" \o ToString(t)

\* new Date(s).getTime(): a string of the table, a toISOString() of the
\* clock, or a string (undefined included) that is no date.
GetTime(s) ==
    IF \E i \in 1..Len(Dates) : Dates[i].iso = s
    THEN Dates[CHOOSE i \in 1..Len(Dates) : Dates[i].iso = s].ms
    ELSE IF \E t \in 0..(MaxNow + 1) : NowIso(t) = s
         THEN Ms(CHOOSE t \in 0..(MaxNow + 1) : NowIso(t) = s)
         ELSE NaN

\* Arithmetic that carries NaN.
Minus(a, b) == IF a = NaN \/ b = NaN THEN NaN ELSE a - b
\* Math.floor(x / unit)
Floor(x, unit) == IF x = NaN THEN NaN ELSE x \div unit
\* A Math.floor(x / unit) in the place of Math.floor((x / unit) % m).
FloorNoMod(x, unit, m) == IF x = NaN THEN NaN ELSE x \div unit
\* Math.floor((x / unit) % m), for x >= 0
FloorMod(x, unit, m) == IF x = NaN THEN NaN ELSE (x % (unit * m)) \div unit

\* An array element: an object with its properties, or null.
Obj(f) == [k |-> "obj", f |-> f]
JNull == [k |-> "null", f |-> NoRec]

\* A parsed JSON document: k is its type, items its elements when it is an
\* array, and for an object mk is the type of its `milestones` property
\* ("undef" when it has none) and items that property's elements.
JArr(items) == [k |-> "arr", mk |-> "undef", items |-> items]
JObj(mk, items) == [k |-> "obj", mk |-> mk, items |-> items]
JPrim(k) == [k |-> k, mk |-> "undef", items |-> <<>>]

\* A text: the empty string, text JSON.parse rejects, or a JSON document.
Absent == [t |-> "absent", v |-> JPrim("null")]
EmptyText == [t |-> "empty", v |-> JPrim("null")]
Garbage == [t |-> "garbage", v |-> JPrim("null")]
Json(v) == [t |-> "json", v |-> v]

\* ------------------------------------------------------ the entity layer
\* Reading a property of null throws; a number has no properties, so every
\* one of them reads as undefined.
NormalizeThrows(item) == item.k = "null"

\* A normalizeMilestone that gives every milestone the default icon.
normalizeMilestoneDefaultIcon(item, t) ==
    [id |-> Or(Get(item.f, "id"), NowId(t)),
     title |-> Or(Get(item.f, "title"), "Nuevo hito"),
     description |-> Or(Get(item.f, "description"), ""),
     datetimeISO |-> Or(Get(item.f, "datetimeISO"), ""),
     icon |-> "flag",
     imageUrl |-> Or(Get(item.f, "imageUrl"), fallbackImageUrl),
     status |-> Or(Get(item.f, "status"), "upcoming"),
     createdAt |-> Or(Get(item.f, "createdAt"), NowIso(t))]

\* normalizeMilestone at instant t.
normalizeMilestone(item, t) ==
    [id |-> Or(Get(item.f, "id"), NowId(t)),
     title |-> Or(Get(item.f, "title"), "Nuevo hito"),
     description |-> Or(Get(item.f, "description"), ""),
     datetimeISO |-> Or(Get(item.f, "datetimeISO"), ""),
     icon |-> Or(Get(item.f, "icon"), "flag"),
     imageUrl |-> Or(Get(item.f, "imageUrl"), fallbackImageUrl),
     status |-> Or(Get(item.f, "status"), "upcoming"),
     createdAt |-> Or(Get(item.f, "createdAt"), NowIso(t))]

\* ------------------------------------------------ the derivation layer
\* A useCountdown that takes the instant of the target for time remaining.
useCountdownStrict(targetDateISO, n) ==
    LET target == GetTime(targetDateISO)
        diff == Minus(target, n)
    IN IF diff # NaN /\ diff < 0
       THEN [days |-> 0, hours |-> 0, minutes |-> 0, seconds |-> 0, totalMs |-> 0,
             isPast |-> TRUE]
       ELSE [days |-> Floor(diff, 1000 * 60 * 60 * 24),
             hours |-> FloorMod(diff, 1000 * 60 * 60, 24),
             minutes |-> FloorMod(diff, 1000 * 60, 60),
             seconds |-> FloorMod(diff, 1000, 60),
             totalMs |-> diff, isPast |-> FALSE]

\* What useCountdown returns when its `now` state is n.
useCountdown(targetDateISO, n) ==
    LET target == GetTime(targetDateISO)
        diff == Minus(target, n)
    IN IF diff # NaN /\ diff <= 0
       THEN [days |-> 0, hours |-> 0, minutes |-> 0, seconds |-> 0, totalMs |-> 0,
             isPast |-> TRUE]
       ELSE [days |-> Floor(diff, 1000 * 60 * 60 * 24),
             hours |-> FloorMod(diff, 1000 * 60 * 60, 24),
             minutes |-> FloorMod(diff, 1000 * 60, 60),
             seconds |-> FloorMod(diff, 1000, 60),
             totalMs |-> diff, isPast |-> FALSE]

\* A percentage is the hundredth part of n / d, or NaN.
Percent(n, d) == [n |-> n, d |-> d]
\* Math.min(100, Math.max(0, (elapsed / total) * 100)), for total > 0: a
\* NaN operand makes both Math.max and Math.min NaN.
Clamp(elapsed, total) ==
    IF elapsed = NaN \/ total = NaN THEN Percent(NaN, 1)
    ELSE IF elapsed <= 0 THEN Percent(0, 1)
    ELSE IF elapsed >= total THEN Percent(1, 1)
    ELSE Percent(elapsed, total)

\* The percentage memo of MilestoneCircle and of Focus for a milestone,
\* with the totalMs its useCountdown returned.
percentage(milestone, totalMs) ==
    LET start == GetTime(Get(milestone, "createdAt"))
        end == GetTime(Get(milestone, "datetimeISO"))
        total == Minus(end, start)
    IN IF total # NaN /\ total <= 0 THEN Percent(1, 1)
       ELSE Clamp(Minus(total, totalMs), total)

Time(m) == GetTime(Get(m, "datetimeISO"))
\* m.status !== 'completed' && new Date(m.datetimeISO).getTime() > now
IsFuture(m, n) == Get(m, "status") # "completed" /\ Time(m) # NaN /\ Time(m) > n

Orders(n) == {p \in [1..n -> 1..n] : \A i, j \in 1..n : i # j => p[i] # p[j]}
\* The stable sort of a list whose times are all numbers.
SortedByTime(ms) ==
    LET p == CHOOSE q \in Orders(Len(ms)) :
                 \A i, j \in 1..Len(ms) : i < j =>
                     \/ Time(ms[q[i]]) < Time(ms[q[j]])
                     \/ Time(ms[q[i]]) = Time(ms[q[j]]) /\ q[i] < q[j]
    IN [i \in 1..Len(ms) |-> ms[p[i]]]
\* [...ms].sort((a, b) => time(a) - time(b)).  With an Invalid Date in the
\* list the comparator answers NaN, which sort reads as 0: unless the other
\* times are all equal it is no consistent comparator, and the order of the
\* result is implementation-defined.
SortOutcomes(ms) ==
    IF \A i \in 1..Len(ms) : Time(ms[i]) # NaN THEN {SortedByTime(ms)}
    ELSE IF \A i, j \in 1..Len(ms) :
                (Time(ms[i]) # NaN /\ Time(ms[j]) # NaN) => Time(ms[i]) = Time(ms[j])
         THEN {ms}
         ELSE {[i \in 1..Len(ms) |-> ms[p[i]]] : p \in Orders(Len(ms))}

\* The elements of a list that are future at n, in order.
Future(ms, n) == SelectSeq(ms, LAMBDA m : IsFuture(m, n))
\* Dashboard: activeMilestone of a sortedTimeline, or null.
DashboardActive(sorted, n) ==
    IF Future(sorted, n) = <<>> THEN NoRec ELSE Future(sorted, n)[1]
\* Focus: activeMilestone, or undefined.
FocusActive(ms, n) ==
    IF Future(ms, n) = <<>> THEN NoRec ELSE SortedByTime(Future(ms, n))[1]

\* ------------------------------------------------------------- the state
VARIABLES
    migrationFlag,  \* localStorage 'firebase_migrated_v_final_3' is set
    localData,      \* localStorage 'milestones_v1' (never written here)
    store,          \* the remote collection: a set of documents
    nextDoc,        \* number of the next document name the store hands out
    exported,       \* the downloaded backup file, or Absent
    exports,        \* backups downloaded so far
    session,        \* "boot" before the App effect has run, then "running"
    startups,       \* page loads so far
    now,            \* Date.now() at its last reading
    milestones,     \* App state: the in-memory set
    delivered,      \* names of the documents of the last push, in order
    loading,        \* App state
    error,          \* App state: error is not null
    isEditing,      \* Settings state: the editor's draft, or NoRec
    migPc,          \* handleMigration: "idle", "await", "done"
    migFlagRead,    \* handleMigration: its constant `migrationFlag` is truthy
    migIdx,         \* element of the local array whose addDoc was last issued
    impPc,          \* handleImport: "idle", "await", "ok", "err"
    impFile,        \* handleImport: the text of `file`
    impQueue,       \* handleImport: `normalized`
    impIdx,         \* element of `normalized` whose addDoc was last issued
    impBase,        \* the store as it was when the import began
    impClean,       \* no other handler has written the store since
    route,          \* the location's path: "/", "/focus", "/settings"
    crashed,        \* a render threw and React unmounted the root
    sortedTimeline, \* Dashboard: the memo `sortedTimeline`
    consumers,      \* mounted Dashboard, Focus and useCountdown instances:
                    \* the `now` state and the `interval` of each
    timers,         \* the intervals setInterval started and nothing cleared
    mounts          \* navigations so far

vars == <<migrationFlag, localData, store, nextDoc, exported, exports, session, startups, now,
          milestones, delivered, loading, error, isEditing, migPc, migFlagRead,
          migIdx, impPc, impFile, impQueue, impIdx, impBase, impClean,
          route, crashed, sortedTimeline, consumers, timers, mounts>>

device == <<migrationFlag, localData>>
disk == <<exported, exports>>
app == <<milestones, delivered, loading, error>>
mig == <<migPc, migFlagRead, migIdx>>
imp == <<impPc, impFile, impQueue, impIdx, impBase>>
view == <<route, crashed, sortedTimeline, consumers, timers, mounts>>

\* ------------------------------------------------------ the remote store
DocName(n) == "d" \o ToString(n)
Doc(n, data, by) == [id |-> DocName(n), n |-> n, data |-> data, by |-> by]

\* addDoc: the store names the new document.
AddDoc(s, n, data, by) == s \cup {Doc(n, data, by)}
HasDoc(s, id) == \E d \in s : d.id = id
\* updateDoc merges the given properties into the named document.
UpdateDoc(s, id, part) ==
    {IF d.id = id THEN [d EXCEPT !.data = Spread(d.data, part)] ELSE d : d \in s}
DeleteDoc(s, id) == {d \in s : d.id # id}

\* query(collection, orderBy('datetimeISO', 'asc')): the documents that
\* have the property, by its value and then by document name.
Before(d, e) ==
    \/ Rank(d.data["datetimeISO"]) < Rank(e.data["datetimeISO"])
    \/ Rank(d.data["datetimeISO"]) = Rank(e.data["datetimeISO"]) /\ d.n <= e.n
RECURSIVE SortDocs(_)
SortDocs(S) ==
    IF S = {} THEN <<>>
    ELSE LET m == CHOOSE d \in S : \A e \in S : Before(d, e)
         IN <<m>> \o SortDocs(S \ {m})
QueryDocs(s) == SortDocs({d \in s : "datetimeISO" \in DOMAIN d.data})

\* snapshot.docs.map(doc => ({ id: doc.id, ...doc.data() }))
SnapshotMilestones(docs) == [i \in 1..Len(docs) |-> Spread([id |-> docs[i].id], docs[i].data)]

\* ---------------------------------------------------------------- inputs
\* Records an earlier version of the application left in the local cache.
LocalFull ==
    [id |-> "1", title |-> "Firma", description |-> "Notaria Central",
     datetimeISO |-> "2026-02-09T10:00", icon |-> "history_edu",
     imageUrl |-> "/images/signing.svg", status |-> "upcoming", createdAt |-> "iso0"]
LocalBare == [id |-> "2", title |-> "", datetimeISO |-> "2026-02-13T08:00"]

LocalCacheValues ==
    {Absent, Garbage, Json(JPrim("num")), Json(JArr(<<>>)),
     Json(JArr(<<Obj(LocalFull), Obj(LocalBare)>>)),
     Json(JArr(<<Obj(LocalBare), JNull>>))}

\* ------------------------------------------------------- App: rendering
\* The render branches of App: the spinner, the error screen, the router.
Phase == IF loading THEN "Loading" ELSE IF error THEN "Errored" ELSE "Ready"

\* alert() is modal: while handleImport's closing alert is open no callback
\* and no handler of the page runs.
AlertOpen == impPc \in {"ok", "err"}
\* The page can run a callback.
Live == session = "running" /\ ~AlertOpen
\* What the clock can read now: time does not run backwards.  The calls of
\* one synchronous stretch of a handler read the same millisecond.
Later == now..MaxNow
\* The router's screens are rendered and take input.
Usable == Live /\ Phase = "Ready" /\ ~crashed

\* ----------------------------------------------------------- the screens
\* The page is opened on the Settings screen; the handlers of the buttons
\* are taken whatever route is shown.
Routes == {"/", "/focus", "/settings"}

\* Keys of the consumers: the two screens, the useCountdown of a
\* MilestoneCircle (the row's key is the milestone's id), the k-th
\* useCountdown call of Dashboard's own render, the one of CountdownDisplay
\* and the one of Focus.
CircleKey(id) == "circle:" \o id
RowKey(k) == "row:" \o ToString(k)
\* The useCountdown instances of Dashboard's own render among consumers.
RowKeys(st) == {RowKey(k) : k \in 1..Cardinality(DOMAIN st)} \cap DOMAIN st

\* The useCountdown calls of Dashboard's render for rows i.. of the list,
\* the first of them at hook position pos: a second call is made for a row
\* that the first does not report past.  The state of a hook is found by
\* its position; d is Date.now() for a hook that is not mounted.
RECURSIVE RowCalls(_, _, _, _, _)
RowCalls(rows, i, pos, st, d) ==
    IF i > Len(rows) THEN <<>>
    ELSE LET iso == Get(rows[i], "datetimeISO")
             n == IF RowKey(pos) \in DOMAIN st THEN st[RowKey(pos)].now ELSE d
         IN IF useCountdown(iso, n).isPast
            THEN <<[key |-> RowKey(pos), iso |-> iso]>> \o RowCalls(rows, i + 1, pos + 1, st, d)
            ELSE <<[key |-> RowKey(pos), iso |-> iso], [key |-> RowKey(pos + 1), iso |-> iso]>>
                 \o RowCalls(rows, i + 1, pos + 2, st, d)

\* The consumers a render of Dashboard leaves mounted.
DashboardKeys(sorted, st, d) ==
    LET n == IF "Dashboard" \in DOMAIN st THEN st["Dashboard"].now ELSE d
        calls == RowCalls(sorted, 1, 1, st, d)
    IN {"Dashboard"}
       \cup {CircleKey(sorted[i].id) : i \in 1..Len(sorted)}
       \cup {calls[j].key : j \in 1..Len(calls)}
       \cup (IF DashboardActive(sorted, n) # NoRec THEN {"display"} ELSE {})

\* Dashboard is rendered again with another number of hooks than it was
\* mounted with: React throws.
HooksMismatch(sorted, st, d) ==
    /\ "Dashboard" \in DOMAIN st
    /\ Len(RowCalls(sorted, 1, 1, st, d)) # Cardinality(RowKeys(st))

\* The consumers of a route.
KeysOf(r, sorted, st, d) ==
    IF r = "/" THEN DashboardKeys(sorted, st, d)
    ELSE IF r = "/focus" THEN {"Focus", "focus"}
    ELSE {}

\* The commit of a render: an effect cleanup that clears nothing.
CommitLeaks(keys, st, d) ==
    /\ consumers' = [k \in keys |->
                       IF k \in DOMAIN st THEN st[k]
                       ELSE [now |-> d, interval |-> [gen |-> mounts', of |-> k]]]
    /\ timers' = timers \cup {[gen |-> mounts', of |-> k] : k \in keys \ DOMAIN st}

\* The commit of a render that leaves `keys` mounted, out of the consumers
\* st: a consumer that goes clears its interval, one that comes reads the
\* clock and starts an interval.
Commit(keys, st, d) ==
    /\ consumers' = [k \in keys |->
                       IF k \in DOMAIN st THEN st[k]
                       ELSE [now |-> d, interval |-> [gen |-> mounts', of |-> k]]]
    /\ timers' = (timers \ {st[k].interval : k \in (DOMAIN st) \ keys})
                     \cup {[gen |-> mounts', of |-> k] : k \in keys \ DOMAIN st}

\* The root is unmounted: every consumer goes.
Unmount ==
    /\ consumers' = <<>>
    /\ timers' = timers \ {consumers[k].interval : k \in DOMAIN consumers}
    /\ sortedTimeline' = <<>>

\* A render of the route's screen over the set ms with the consumers st,
\* at clock reading d.
Render(ms, st, d, resort) ==
    IF route' = "/"
    THEN \E sorted \in (IF resort THEN SortOutcomes(ms) ELSE {sortedTimeline}) :
           IF HooksMismatch(sorted, st, d)
           THEN crashed' = TRUE /\ Unmount
           ELSE /\ crashed' = crashed
                /\ sortedTimeline' = sorted
                /\ Commit(KeysOf("/", sorted, st, d), st, d)
    ELSE /\ crashed' = crashed
         /\ sortedTimeline' = <<>>
         /\ Commit(KeysOf(route', <<>>, st, d), st, d)

\* A Link of the navigation bar: the screen shown goes, another comes.
Navigate ==
    /\ Usable
    /\ mounts < MaxMounts
    /\ mounts' = mounts + 1
    /\ \E r \in Routes \ {route}, t \in Later :
         /\ route' = r
         /\ now' = t
         /\ Render(milestones, consumers, Ms(t), TRUE)
    /\ UNCHANGED <<device, store, nextDoc, disk, session, startups, app, isEditing, mig, imp, impClean>>

\* The interval of Dashboard fires: setNow(Date.now()), and the render that
\* follows.
TickDashboard ==
    /\ Live
    /\ "Dashboard" \in DOMAIN consumers /\ consumers["Dashboard"].interval \in timers
    /\ \E t \in Later :
         /\ now' = t
         /\ UNCHANGED <<route, mounts>>
         /\ Render(milestones, [consumers EXCEPT !["Dashboard"].now = Ms(t)], Ms(t), FALSE)
    /\ UNCHANGED <<device, store, nextDoc, disk, session, startups, app, isEditing, mig, imp, impClean>>

\* The interval of Focus fires.
TickFocus ==
    /\ Live
    /\ "Focus" \in DOMAIN consumers /\ consumers["Focus"].interval \in timers
    /\ \E t \in Later :
         /\ now' = t
         /\ UNCHANGED <<route, mounts>>
         /\ Render(milestones, [consumers EXCEPT !["Focus"].now = Ms(t)], Ms(t), FALSE)
    /\ UNCHANGED <<device, store, nextDoc, disk, session, startups, app, isEditing, mig, imp, impClean>>

\* The interval of a useCountdown instance fires.
TickCountdown ==
    /\ Live
    /\ \E k \in (DOMAIN consumers) \ {"Dashboard", "Focus"}, t \in Later :
         /\ consumers[k].interval \in timers
         /\ now' = t
         /\ UNCHANGED <<route, mounts>>
         /\ Render(milestones, [consumers EXCEPT ![k].now = Ms(t)], Ms(t), FALSE)
    /\ UNCHANGED <<device, store, nextDoc, disk, session, startups, app, isEditing, mig, imp, impClean>>

\* The render that follows a push of the set ms: a screen that shows the
\* set is rendered, the first time at the first push.
RenderOnPush(ms) ==
    IF error \/ crashed \/ route = "/settings" THEN UNCHANGED <<view, now>>
    ELSE \E t \in Later :
           /\ now' = t
           /\ UNCHANGED <<route, mounts>>
           /\ Render(ms, consumers, Ms(t), TRUE)

\* ------------------------------------------------------------ App: start
Init ==
    /\ migrationFlag \in BOOLEAN
    /\ localData \in LocalCacheValues
    /\ store = {}
    /\ nextDoc = 1
    /\ exported = Absent
    /\ exports = 0
    /\ session = "boot"
    /\ startups = 1
    /\ now = 1
    /\ milestones = <<>>
    /\ delivered = <<>>
    /\ loading = TRUE
    /\ error = FALSE
    /\ isEditing = NoRec
    /\ migPc = "idle"
    /\ migFlagRead = FALSE
    /\ migIdx = 0
    /\ impPc = "idle"
    /\ impFile = Absent
    /\ impQueue = <<>>
    /\ impIdx = 0
    /\ impBase = {}
    /\ impClean = TRUE
    /\ route = "/settings"
    /\ crashed = FALSE
    /\ sortedTimeline = <<>>
    /\ consumers = <<>>
    /\ timers = {}
    /\ mounts = 0

\* The migration loop from element i on, up to its next await: the loop is
\* over (flag set), destructuring element i throws into the catch (flag
\* set), or addDoc is issued for element i.
MigLoop(items, i) ==
    IF i > Len(items) \/ items[i].k = "null"
    THEN [pc |-> "done", idx |-> i - 1, flag |-> TRUE]
    ELSE [pc |-> "await", idx |-> i, flag |-> migrationFlag]

\* A handleMigration that reads the local cache without looking at the flag.
MigBeginIgnoresFlag ==
    IF localData.t = "json" /\ localData.v.k = "arr" /\ Len(localData.v.items) > 0
    THEN MigLoop(localData.v.items, 1)
    ELSE [pc |-> "done", idx |-> 0, flag |-> TRUE]

\* handleMigration from its call up to its first await.
MigBegin ==
    IF migrationFlag THEN [pc |-> "done", idx |-> 0, flag |-> TRUE]
    ELSE IF localData.t = "json" /\ localData.v.k = "arr" /\ Len(localData.v.items) > 0
         THEN MigLoop(localData.v.items, 1)
         ELSE [pc |-> "done", idx |-> 0, flag |-> TRUE]

\* The App effect: subscribe, then call handleMigration.
Startup ==
    /\ session = "boot"
    /\ session' = "running"
    /\ migPc' = MigBegin.pc
    /\ migFlagRead' = migrationFlag
    /\ migIdx' = MigBegin.idx
    /\ migrationFlag' = MigBegin.flag
    /\ UNCHANGED <<view, localData, store, nextDoc, disk, startups, now, app, isEditing, imp, impClean>>

\* The addDoc handleMigration awaits resolves: the document is stored and
\* the loop goes on.
MigCreateOk ==
    /\ Live /\ migPc = "await"
    /\ nextDoc <= MaxDocs
    /\ LET items == localData.v.items
           nxt == MigLoop(items, migIdx + 1)
       IN /\ store' = AddDoc(store, nextDoc, StripId(items[migIdx].f), <<"migration", migIdx>>)
          /\ nextDoc' = nextDoc + 1
          /\ migPc' = nxt.pc
          /\ migIdx' = nxt.idx
          /\ migrationFlag' = nxt.flag
    /\ impClean' = FALSE
    /\ UNCHANGED <<view, localData, disk, session, startups, now, app, isEditing, migFlagRead, imp>>

\* A handleMigration that sets the flag only inside the try block.
MigCreateFailKeepsFlag ==
    /\ Live /\ migPc = "await"
    /\ migPc' = "done"
    /\ UNCHANGED <<view, device, store, nextDoc, disk, session, startups, now, app, isEditing,
                   migFlagRead, migIdx, imp, impClean>>

\* The addDoc handleMigration awaits rejects: the catch, then the flag.
MigCreateFail ==
    /\ Live /\ migPc = "await"
    /\ migPc' = "done"
    /\ migrationFlag' = TRUE
    /\ UNCHANGED <<view, localData, store, nextDoc, disk, session, startups, now, app, isEditing,
                   migFlagRead, migIdx, imp, impClean>>

\* A first callback that also clears the error.
PushClearsError ==
    /\ Live
    /\ milestones' = SnapshotMilestones(QueryDocs(store))
    /\ delivered' = [i \in 1..Len(QueryDocs(store)) |-> QueryDocs(store)[i].id]
    /\ loading' = FALSE
    /\ error' = FALSE
    /\ RenderOnPush(SnapshotMilestones(QueryDocs(store)))
    /\ UNCHANGED <<device, store, nextDoc, disk, session, startups, isEditing,
                   mig, imp, impClean>>

\* onSnapshot's first callback.
Push ==
    /\ Live
    /\ milestones' = SnapshotMilestones(QueryDocs(store))
    /\ delivered' = [i \in 1..Len(QueryDocs(store)) |-> QueryDocs(store)[i].id]
    /\ loading' = FALSE
    /\ RenderOnPush(SnapshotMilestones(QueryDocs(store)))
    /\ UNCHANGED <<device, store, nextDoc, disk, session, startups, error, isEditing,
                   mig, imp, impClean>>

\* onSnapshot's error callback.
SnapshotError ==
    /\ Live
    /\ error' = TRUE
    /\ loading' = FALSE
    /\ Unmount
    /\ UNCHANGED <<route, crashed, mounts, device, store, nextDoc, disk, session, startups, now,
                   milestones, delivered, isEditing, mig, imp, impClean>>

\* window.location.reload(): the page and every suspended handler of it are
\* gone; localStorage, the store and the downloaded file stay.
Reload ==
    /\ session = "running"
    /\ startups < MaxStartups
    /\ startups' = startups + 1
    /\ session' = "boot"
    /\ milestones' = <<>>
    /\ delivered' = <<>>
    /\ loading' = TRUE
    /\ error' = FALSE
    /\ isEditing' = NoRec
    /\ migPc' = "idle"
    /\ migFlagRead' = FALSE
    /\ migIdx' = 0
    /\ impPc' = "idle"
    /\ impFile' = Absent
    /\ impQueue' = <<>>
    /\ impIdx' = 0
    /\ impBase' = {}
    /\ impClean' = TRUE
    /\ crashed' = FALSE
    /\ sortedTimeline' = <<>>
    /\ consumers' = <<>>
    /\ timers' = {}
    /\ UNCHANGED <<route, mounts, device, store, nextDoc, disk, now>>

\* ------------------------------------------------- Settings: the editor
\* Values typed into the editor's inputs.
EditorInputs ==
    {<<"title", "Turno">>, <<"description", "Sede Principal">>, <<"imageUrl", "">>,
     <<"datetimeISO", "2026-02-13T08:00">>}

\* "Add New" at instant t.
AddNew ==
    /\ Usable
    /\ \E t \in Later :
         /\ now' = t
         /\ isEditing' =
              [id |-> NowId(t), title |-> "", description |-> "", datetimeISO |-> "",
               icon |-> "flag", imageUrl |-> fallbackImageUrl, status |-> "upcoming",
               createdAt |-> NowIso(t)]
    /\ UNCHANGED <<view, device, store, nextDoc, disk, session, startups, app, mig, imp, impClean>>

\* The edit button of the i-th listed milestone.
EditMilestone ==
    /\ Usable
    /\ \E i \in 1..Len(milestones) : isEditing' = milestones[i]
    /\ UNCHANGED <<view, device, store, nextDoc, disk, session, startups, now, app, mig, imp, impClean>>

\* onChange of one of the form's inputs.
SetField ==
    /\ Usable
    /\ isEditing # NoRec
    /\ \E kv \in EditorInputs : isEditing' = [k \in (DOMAIN isEditing) \cup {kv[1]} |->
                                               IF k = kv[1] THEN kv[2] ELSE isEditing[k]]
    /\ UNCHANGED <<view, device, store, nextDoc, disk, session, startups, now, app, mig, imp, impClean>>

CancelEdit ==
    /\ Usable
    /\ isEditing # NoRec
    /\ isEditing' = NoRec
    /\ UNCHANGED <<view, device, store, nextDoc, disk, session, startups, now, app, mig, imp, impClean>>

\* The form submits only with its two required inputs filled.
FormValid(draft) == Truthy(Get(draft, "title")) /\ Truthy(Get(draft, "datetimeISO"))

\* Whether handleSave's write is an update of a known milestone.
SaveIsUpdate(draft, ms) == \E i \in 1..Len(ms) : ms[i].id = Get(draft, "id")

\* handleSave with the write it awaits, which the store accepts (ok) or
\* rejects; updateDoc of a document that does not exist is rejected.
handleSave ==
    /\ Usable
    /\ isEditing # NoRec /\ FormValid(isEditing)
    /\ \E ok \in BOOLEAN :
         LET id == Get(isEditing, "id")
             milestoneData == StripId(isEditing)
             upd == SaveIsUpdate(isEditing, milestones)
             done == IF upd THEN ok /\ HasDoc(store, id) ELSE ok /\ nextDoc <= MaxDocs
         IN /\ store' = IF ~done THEN store
                        ELSE IF upd THEN UpdateDoc(store, id, milestoneData)
                        ELSE AddDoc(store, nextDoc, milestoneData, <<"save", 0>>)
            /\ nextDoc' = IF done /\ ~upd THEN nextDoc + 1 ELSE nextDoc
            /\ isEditing' = IF done THEN NoRec ELSE isEditing
            /\ impClean' = (impClean /\ ~done)
    /\ UNCHANGED <<view, device, disk, session, startups, now, app, mig, imp>>

\* handleDelete of the i-th listed milestone, confirmed, with the deleteDoc
\* it awaits.
handleDelete ==
    /\ Usable
    /\ \E i \in 1..Len(milestones), ok \in BOOLEAN :
         /\ store' = IF ok THEN DeleteDoc(store, milestones[i].id) ELSE store
         /\ impClean' = (impClean /\ store' = store)
    /\ UNCHANGED <<view, device, nextDoc, disk, session, startups, now, app, isEditing, mig, imp>>

\* toggleComplete of the i-th milestone of the Dashboard, with the updateDoc
\* it awaits.
FindById(ms, id) == ms[CHOOSE i \in 1..Len(ms) : ms[i].id = id /\ \A j \in 1..(i - 1) : ms[j].id # id]
\* A toggleComplete that shows the new status before the store confirms it.
toggleCompleteOptimistic ==
    /\ Usable
    /\ \E i \in 1..Len(milestones), ok \in BOOLEAN :
         LET id == milestones[i].id
             milestone == FindById(milestones, id)
             status == IF Get(milestone, "status") = "completed" THEN "upcoming" ELSE "completed"
         IN /\ store' = IF ok /\ HasDoc(store, id)
                        THEN UpdateDoc(store, id, [status |-> status]) ELSE store
            /\ milestones' = [j \in 1..Len(milestones) |->
                                IF milestones[j].id = id
                                THEN Spread(milestones[j], [status |-> status])
                                ELSE milestones[j]]
            /\ impClean' = (impClean /\ store' = store)
    /\ UNCHANGED <<view, device, nextDoc, disk, session, startups, now, delivered, loading, error,
                   isEditing, mig, imp>>

toggleComplete ==
    /\ Usable
    /\ \E i \in 1..Len(milestones), ok \in BOOLEAN :
         LET id == milestones[i].id
             milestone == FindById(milestones, id)
             status == IF Get(milestone, "status") = "completed" THEN "upcoming" ELSE "completed"
         IN /\ store' = IF ok /\ HasDoc(store, id)
                        THEN UpdateDoc(store, id, [status |-> status]) ELSE store
            /\ impClean' = (impClean /\ store' = store)
    /\ UNCHANGED <<view, device, nextDoc, disk, session, startups, now, app, isEditing, mig, imp>>

\* ---------------------------------------- Settings: export and import
\* JSON.stringify({ milestones }) as the downloaded file.
ExportDocument(ms) == Json(JObj("arr", [i \in 1..Len(ms) |-> Obj(ms[i])]))

handleExport ==
    /\ Usable
    /\ exports < MaxExports
    /\ exported' = ExportDocument(milestones)
    /\ exports' = exports + 1
    /\ UNCHANGED <<view, device, store, nextDoc, session, startups, now, app, isEditing, mig, imp, impClean>>

\* Files the user may pick besides the downloaded backup.
ImportFiles ==
    {Garbage, EmptyText, Json(JPrim("num")), Json(JPrim("null")), Json(JPrim("str")),
     Json(JObj("undef", <<>>)), Json(JObj("num", <<>>)),
     Json(JArr(<<>>)), Json(JArr(<<Obj(NoRec), Obj(NoRec)>>)),
     Json(JArr(<<Obj(NoRec), JNull>>))}

\* JSON.parse throws.
ParseThrows(file) == file.t # "json"
\* A handleImport that takes any object for a container of milestones.
DataIsArrayAnyObject(file) == file.v.k \in {"arr", "obj"}

\* Array.isArray(parsed) ? parsed : parsed?.milestones, as an array or not.
DataIsArray(file) == file.v.k = "arr" \/ (file.v.k = "obj" /\ file.v.mk = "arr")
\* The payload passes the validation of handleImport.
Accepted(file) == ~ParseThrows(file) /\ DataIsArray(file)
\* data.map(normalizeMilestone) throws.
MapThrows(file) == \E i \in 1..Len(file.v.items) : NormalizeThrows(file.v.items[i])

\* handleImport up to its first await or its alert; one import runs at a
\* time.
handleImport ==
    /\ Usable
    /\ impPc # "await"
    /\ \E file \in ImportFiles \cup ({exported} \ {Absent}) :
         /\ impFile' = file
         /\ IF ~Accepted(file) \/ MapThrows(file)
            THEN /\ impPc' = "err"
                 /\ impQueue' = <<>>
                 /\ impIdx' = 0
                 /\ now' = now
            ELSE \E t \in Later :
                 /\ now' = t
                 /\ impQueue' = [i \in 1..Len(file.v.items) |->
                                  normalizeMilestone(file.v.items[i], t)]
                 /\ impPc' = IF Len(file.v.items) = 0 THEN "ok" ELSE "await"
                 /\ impIdx' = IF Len(file.v.items) = 0 THEN 0 ELSE 1
    /\ impBase' = store
    /\ impClean' = TRUE
    /\ UNCHANGED <<view, device, store, nextDoc, disk, session, startups, app, isEditing, mig>>

\* The addDoc handleImport awaits resolves.
ImportCreateOk ==
    /\ Live /\ impPc = "await"
    /\ nextDoc <= MaxDocs
    /\ store' = AddDoc(store, nextDoc, impQueue[impIdx], <<"import", impIdx>>)
    /\ nextDoc' = nextDoc + 1
    /\ impPc' = IF impIdx = Len(impQueue) THEN "ok" ELSE "await"
    /\ impIdx' = IF impIdx = Len(impQueue) THEN impIdx ELSE impIdx + 1
    /\ UNCHANGED <<view, device, disk, session, startups, now, app, isEditing, mig, impFile, impQueue,
                   impBase, impClean>>

\* A handleImport that undoes its writes when one of them is rejected.
ImportCreateFailRollsBack ==
    /\ Live /\ impPc = "await"
    /\ impPc' = "err"
    /\ store' = {d \in store : d.by[1] # "import"}
    /\ UNCHANGED <<view, device, nextDoc, disk, session, startups, now, app, isEditing, mig,
                   impFile, impQueue, impIdx, impBase, impClean>>

\* The addDoc handleImport awaits rejects.
ImportCreateFail ==
    /\ Live /\ impPc = "await"
    /\ impPc' = "err"
    /\ UNCHANGED <<view, device, store, nextDoc, disk, session, startups, now, app, isEditing, mig,
                   impFile, impQueue, impIdx, impBase, impClean>>

\* The user closes the alert and handleImport returns.
DismissAlert ==
    /\ session = "running" /\ AlertOpen
    /\ impPc' = "idle"
    /\ impFile' = Absent
    /\ impQueue' = <<>>
    /\ impIdx' = 0
    /\ impBase' = {}
    /\ impClean' = TRUE
    /\ UNCHANGED <<view, device, store, nextDoc, disk, session, startups, now, app, isEditing, mig>>

\* ------------------------------------------- a page that shows a set
\* A record as an import leaves it in a document: every property set, the
\* id among them.
Entry(id, iso, status, createdAt) ==
    [id |-> id, title |-> "Hito", description |-> "", datetimeISO |-> iso, icon |-> "flag",
     imageUrl |-> fallbackImageUrl, status |-> status, createdAt |-> createdAt]

\* The lists of at most n records over the given dates, statuses and
\* creation dates, in the order of the query; the i-th has the id "m<i>".
Lists(n, isos, statuses, createds) ==
    LET Choices == isos \X statuses \X createds
        Raw == UNION {[1..k -> Choices] : k \in 0..n}
    IN {[i \in 1..Len(c) |-> Entry("m" \o ToString(i), c[i][1], c[i][2], c[i][3])] :
          c \in {r \in Raw : \A i \in 1..(Len(r) - 1) : Rank(r[i][1]) <= Rank(r[i + 1][1])}}

\* The page after the list ms was imported into an empty store on a device
\* that needs no migration, the alert was closed and the push was handled.
Showing(ms) ==
    /\ migrationFlag = TRUE
    /\ localData = Absent
    /\ store = {Doc(i, ms[i], <<"import", i>>) : i \in 1..Len(ms)}
    /\ nextDoc = Len(ms) + 1
    /\ exported = Absent
    /\ exports = 0
    /\ session = "running"
    /\ startups = 1
    /\ now = 1
    /\ milestones = SnapshotMilestones(QueryDocs(store))
    /\ delivered = [i \in 1..Len(ms) |-> DocName(i)]
    /\ loading = FALSE
    /\ error = FALSE
    /\ isEditing = NoRec
    /\ migPc = "done"
    /\ migFlagRead = TRUE
    /\ migIdx = 0
    /\ impPc = "idle"
    /\ impFile = Absent
    /\ impQueue = <<>>
    /\ impIdx = 0
    /\ impBase = {}
    /\ impClean = TRUE
    /\ route = "/settings"
    /\ crashed = FALSE
    /\ sortedTimeline = <<>>
    /\ consumers = <<>>
    /\ timers = {}
    /\ mounts = 0

\* Sets for the selection of the active milestone: dates that are past,
\* future, equal, no dates, and a date whose string does not sort as its
\* time does.
SelectionSets ==
    Lists(MaxSet,
          {"", "2026-02-09T08:58:58", "2026-02-09T10:00", "2026-02-13T08:00", "TBD",
           "Tue, 10 Feb 2026 08:00:00 GMT"},
          {"upcoming", "completed"}, {"iso0"})

InitSelection == \E ms \in SelectionSets : Showing(ms)

\* Sets of one milestone for the countdown and the progress: every date of
\* the table, created before the page was opened, as it was opened, after
\* most of the targets, or at no date.
CountdownSets ==
    Lists(1, {Dates[i].iso : i \in 1..Len(Dates)}, {"upcoming", "completed"},
          {"iso0", "iso1", "2026-02-10T08:58:59", "TBD"})

InitCountdown == \E ms \in CountdownSets : Showing(ms)

\* ------------------------------------------------------ specifications
Next ==
    \/ Startup
    \/ MigCreateOk
    \/ MigCreateFail
    \/ Push
    \/ SnapshotError
    \/ Reload
    \/ AddNew
    \/ EditMilestone
    \/ SetField
    \/ CancelEdit
    \/ handleSave
    \/ handleDelete
    \/ toggleComplete
    \/ handleExport
    \/ handleImport
    \/ ImportCreateOk
    \/ ImportCreateFail
    \/ DismissAlert
    \/ Navigate
    \/ TickDashboard
    \/ TickFocus
    \/ TickCountdown

\* The whole application.  The specifications after it take the handlers
\* a property is about, with the subscription and the migration beside
\* them.
Spec == Init /\ [][Next]_vars

\* The migration with the subscription and the Dashboard's and the list's
\* buttons.
NextMigration ==
    \/ Startup
    \/ MigCreateOk
    \/ MigCreateFail
    \/ Push
    \/ SnapshotError
    \/ Reload
    \/ handleDelete
    \/ toggleComplete

SpecMigration == Init /\ [][NextMigration]_vars

\* Every addDoc issued resolves or rejects, and a page that was loaded runs
\* its effect.
FairMigration ==
    SpecMigration /\ WF_vars(Startup) /\ WF_vars(MigCreateOk \/ MigCreateFail)

\* Import beside the migration, the subscription and the list's delete.
NextImport ==
    \/ Startup
    \/ MigCreateOk
    \/ MigCreateFail
    \/ Push
    \/ SnapshotError
    \/ Reload
    \/ handleDelete
    \/ handleImport
    \/ ImportCreateOk
    \/ ImportCreateFail
    \/ DismissAlert

SpecImport == Init /\ [][NextImport]_vars

\* Export and import on one page load.
NextBackup ==
    \/ Startup
    \/ MigCreateOk
    \/ MigCreateFail
    \/ Push
    \/ SnapshotError
    \/ handleDelete
    \/ handleExport
    \/ handleImport
    \/ ImportCreateOk
    \/ ImportCreateFail
    \/ DismissAlert

SpecBackup == Init /\ [][NextBackup]_vars

\* Every handler that writes the store, on one page load: the buttons of
\* the Dashboard and of the list, the editor opened on a listed milestone,
\* the import and the migration.
NextWriters ==
    \/ Startup
    \/ MigCreateOk
    \/ MigCreateFail
    \/ Push
    \/ SnapshotError
    \/ EditMilestone
    \/ handleSave
    \/ handleDelete
    \/ toggleComplete
    \/ handleImport
    \/ ImportCreateOk
    \/ ImportCreateFail
    \/ DismissAlert

SpecWriters == Init /\ [][NextWriters]_vars

\* Dashboard and Focus over a set that does not change: the navigation and
\* the two screens' own intervals.
NextSelection ==
    \/ Navigate
    \/ TickDashboard
    \/ TickFocus

SpecSelection == InitSelection /\ [][NextSelection]_vars

\* The screens over a set of one milestone, with every interval.
NextCountdown ==
    \/ Navigate
    \/ TickDashboard
    \/ TickFocus
    \/ TickCountdown

SpecCountdown == InitCountdown /\ [][NextCountdown]_vars

\* The editor of Settings on a page that shows one imported milestone: the
\* form's inputs, the save with its write, and the pushes that follow.
InitEditor == Showing(<<Entry("m1", "2026-02-13T08:00", "upcoming", "iso0")>>)

NextEditor ==
    \/ AddNew \/ EditMilestone \/ SetField \/ CancelEdit \/ handleSave \/ Push

SpecEditor == InitEditor /\ [][NextEditor]_vars

\* The screens of a page from its load on: the subscription and the
\* migration change the set that is shown, an error and a reload take the
\* screens away.
NextTimers ==
    \/ Startup
    \/ MigCreateOk
    \/ MigCreateFail
    \/ Push
    \/ SnapshotError
    \/ Reload
    \/ Navigate
    \/ TickDashboard
    \/ TickFocus
    \/ TickCountdown

\* A first start-up on a device whose localStorage holds one milestone to
\* migrate, followed by an element the migration stops at.
InitTimers ==
    /\ Init
    /\ ~migrationFlag
    /\ localData = Json(JArr(<<Obj(LocalBare), JNull>>))

SpecTimers == InitTimers /\ [][NextTimers]_vars

\* ================================================================ claims
LocalIsArray == localData.t = "json" /\ localData.v.k = "arr"
LocalItems == localData.v.items
\* The local cache holds a non-empty array of objects.
LocalIsRecords ==
    /\ LocalIsArray /\ Len(LocalItems) > 0
    /\ \A i \in 1..Len(LocalItems) : LocalItems[i].k = "obj"
\* Documents of the store that the migration created from the i-th local
\* record.
MigratedFrom(i) == {d \in store : d.by = <<"migration", i>>}

\* C1: a handleMigration run that read the sentinel flag as set has ended
\* without issuing a single addDoc, whatever the local cache holds.
C1_FlagSetNoCreate ==
    (migPc # "idle" /\ migFlagRead) => (migPc = "done" /\ migIdx = 0)

\* C1 witness: a run that read the flag as set over a local cache holding
\* records.
C1_Witness == migPc = "done" /\ migFlagRead /\ LocalIsRecords

\* C2: over all the page loads of one device, no local-cache record is
\* created in the store more than once.
C2_AtMostOnce == \A i \in 1..Len(LocalItems) : Cardinality(MigratedFrom(i)) <= 1

\* C3: a run that read the flag as unset has set it when it ends, whatever
\* the outcome; such a run leads to the flag being set; and the flag, once
\* set, stays set, so no later page load migrates again.
C3_FlagSetAfterAttempt ==
    /\ []((migPc = "done" /\ ~migFlagRead) => migrationFlag)
    /\ ((migPc # "idle" /\ ~migFlagRead) ~> migrationFlag)
    /\ [][migrationFlag => migrationFlag']_vars

\* C3 witness: a run whose addDoc was rejected has ended, with records left
\* that were never created.
C3_Witness ==
    /\ migPc = "done" /\ ~migFlagRead /\ migrationFlag
    /\ LocalIsRecords /\ migIdx >= 1 /\ MigratedFrom(migIdx) = {}

\* C4: a run that read the flag as unset over an array of records has, when
\* it ends, issued an addDoc for every one of the records.
C4_EveryRecordAttempted ==
    (migPc = "done" /\ ~migFlagRead /\ LocalIsRecords) => migIdx = Len(LocalItems)

\* The payload is an array, or an object holding an array under `milestones`.
ArrayOrContainer(f) ==
    f.t = "json" /\ (f.v.k = "arr" \/ (f.v.k = "obj" /\ f.v.mk = "arr"))

\* C5: an import whose payload is neither an array nor a container of one
\* ends in the error alert with no addDoc issued, and the step that handles
\* it changes neither the store nor the in-memory set.
C5_InvalidImportAborts ==
    /\ []((impPc # "idle" /\ ~ArrayOrContainer(impFile)) => (impPc = "err" /\ impIdx = 0))
    /\ [][(impPc = "idle" /\ impPc' # "idle" /\ ~ArrayOrContainer(impFile'))
            => (store' = store /\ nextDoc' = nextDoc /\ milestones' = milestones)]_vars

\* C5 witness: a bare number was imported over a store and an in-memory set
\* that hold milestones.
C5_Witness ==
    /\ impPc = "err" /\ impFile = Json(JPrim("num"))
    /\ store # {} /\ Len(milestones) > 0

\* Documents written since the import began, and how many of its records
\* the import has written.
ImportedDocs == store \ impBase
Committed == IF impPc = "ok" \/ impIdx = 0 THEN impIdx ELSE impIdx - 1
\* With no other writer, the store is what it was plus the first Committed
\* records, one document each, named in input order.
PrefixCommitted ==
    /\ impBase \subseteq store
    /\ Cardinality(ImportedDocs) = Committed
    /\ \A j \in 1..Committed :
         \E d \in ImportedDocs : d.n = nextDoc - Committed + j - 1 /\ d.data = impQueue[j]

\* C6: an import writes its records one at a time in input order: while it
\* runs and when it has ended the store holds its prior contents plus the
\* records before the one being written; a rejected addDoc ends the import
\* in the error alert and neither removes a written record nor writes a
\* later one.
C6_PrefixStaysCommitted ==
    /\ []((impPc # "idle" /\ impClean) => PrefixCommitted)
    /\ [][(impPc = "await" /\ impPc' # "await" /\ session' = "running" /\ nextDoc' = nextDoc)
            => (impPc' = "err" /\ impIdx' = impIdx /\ store' = store)]_vars

\* C6 witness: the second of two records was rejected over a store that
\* held a document before: the first record stays written.
C6_Witness ==
    /\ impPc = "err" /\ impIdx = 2 /\ impClean
    /\ impBase # {} /\ Cardinality(ImportedDocs) = 1

\* The (title, description, targetTime, icon, status) of a record.
Tuple(o) ==
    <<Get(o, "title"), Get(o, "description"), Get(o, "datetimeISO"), Get(o, "icon"),
      Get(o, "status")>>
\* Two families of records hold the same tuples the same number of times.
SameTuples(A, a, B, b) ==
    \A t \in {Tuple(a[x]) : x \in A} \cup {Tuple(b[y]) : y \in B} :
        Cardinality({x \in A : Tuple(a[x]) = t}) = Cardinality({y \in B : Tuple(b[y]) = t})
StoreData == [d \in store |-> d.data]
ExportedSet == [i \in 1..Len(exported.v.items) |-> exported.v.items[i].f]
\* The downloaded backup has been imported, every addDoc resolved, into a
\* store that was empty and that nothing else wrote.
RoundTripDone ==
    /\ exported # Absent /\ impFile = exported
    /\ impPc = "ok" /\ impBase = {} /\ impClean
\* Normalization leaves the five properties of the record as they are.
Complete(o) ==
    /\ Truthy(Get(o, "title")) /\ Truthy(Get(o, "icon")) /\ Truthy(Get(o, "status"))
    /\ "description" \in DOMAIN o /\ "datetimeISO" \in DOMAIN o

\* C7 as stated: after the round trip the store holds the tuples of the
\* exported set, whatever the set.
C7_RoundTripAny ==
    RoundTripDone => SameTuples(store, StoreData, DOMAIN ExportedSet, ExportedSet)

\* C7 amended: after the round trip the store holds the tuples of the
\* exported set, when every milestone of the set has a non-empty title, icon
\* and status and has a description and a targetTime.
C7_RoundTripComplete ==
    (RoundTripDone /\ \A i \in DOMAIN ExportedSet : Complete(ExportedSet[i]))
        => SameTuples(store, StoreData, DOMAIN ExportedSet, ExportedSet)

\* C7 witness: a round trip of a set that holds a complete milestone.
C7_Witness ==
    /\ RoundTripDone /\ Len(exported.v.items) > 0
    /\ \A i \in DOMAIN ExportedSet : Complete(ExportedSet[i])

\* C8: no two milestones of the in-memory set have the same id.
C8_UniqueIds ==
    \A i, j \in 1..Len(milestones) : i # j => milestones[i].id # milestones[j].id

\* C9: the id of each milestone of the in-memory set is the name of the
\* document the push delivered it from.
C9_IdIsDocumentName ==
    \A i \in 1..Len(milestones) : milestones[i].id = delivered[i]

\* C10: Errored is left by no step of the running page: only a page load
\* leaves it.
C10_ErroredStays ==
    [][(Phase = "Errored" /\ startups' = startups) => Phase' = "Errored"]_vars

\* C10 witness: the page is Errored with a push handled since, while the
\* migration and an import are suspended.
C10_Witness ==
    /\ Phase = "Errored" /\ Len(milestones) > 0
    /\ migPc = "await" /\ impPc = "await"

\* C11: the in-memory set changes only in a step that handles a push, which
\* makes it the snapshot of the store and writes nothing; a step that writes
\* the store (toggle, save, delete, import, migration), and a step whose
\* write was rejected, leaves the in-memory set as it was.
C11_OnlyPushChangesSet ==
    [][/\ (milestones' # milestones) =>
            (store' = store /\ milestones' = SnapshotMilestones(QueryDocs(store)))
       /\ (store' # store \/ nextDoc' # nextDoc \/ isEditing' # isEditing \/ imp' # imp
            \/ mig' # mig) => milestones' = milestones]_vars

\* C11 witness: the store has confirmed a toggle of a listed milestone and
\* the in-memory set, not pushed since, still shows the old status.
C11_Witness ==
    /\ Usable
    /\ \E i \in 1..Len(milestones) :
         /\ Get(milestones[i], "status") # "completed"
         /\ \E d \in store : d.id = milestones[i].id /\ Get(d.data, "status") = "completed"

\* The milestones of a set that are not completed and whose targetTime is a
\* time after n, and the one of them the selection is to return: the
\* smallest targetTime, the earliest in the set among equal ones.
Candidates(ms, n) ==
    {i \in 1..Len(ms) : Get(ms[i], "status") # "completed" /\ Time(ms[i]) # NaN /\ Time(ms[i]) > n}
Soonest(ms, n) ==
    IF Candidates(ms, n) = {} THEN NoRec
    ELSE ms[CHOOSE i \in Candidates(ms, n) : \A j \in Candidates(ms, n) :
                \/ Time(ms[i]) < Time(ms[j])
                \/ Time(ms[i]) = Time(ms[j]) /\ i <= j]
DashboardShown == "Dashboard" \in DOMAIN consumers
FocusShown == "Focus" \in DOMAIN consumers

\* C12: whatever the set and the `now` of the screen, the active milestone
\* of Dashboard and the one of Focus are the not-completed milestone of the
\* smallest targetTime after now, the earliest in the set among equal
\* ones, and none when there is no such milestone; so the two agree.
C12_ActiveIsSoonest ==
    /\ DashboardShown =>
         /\ DashboardActive(sortedTimeline, consumers["Dashboard"].now)
              = Soonest(milestones, consumers["Dashboard"].now)
         /\ DashboardActive(sortedTimeline, consumers["Dashboard"].now)
              = FocusActive(milestones, consumers["Dashboard"].now)
    /\ FocusShown =>
         FocusActive(milestones, consumers["Focus"].now)
           = Soonest(milestones, consumers["Focus"].now)

\* The useCountdown calls of the screen that is shown: the argument and the
\* `now` state of each.
CountdownCalls ==
    IF DashboardShown
    THEN LET calls == RowCalls(sortedTimeline, 1, 1, consumers, 0)
             active == DashboardActive(sortedTimeline, consumers["Dashboard"].now)
         IN {[iso |-> Get(sortedTimeline[i], "datetimeISO"),
              now |-> consumers[CircleKey(sortedTimeline[i].id)].now] :
                i \in 1..Len(sortedTimeline)}
            \cup {[iso |-> calls[j].iso, now |-> consumers[calls[j].key].now] :
                    j \in 1..Len(calls)}
            \cup (IF active # NoRec
                  THEN {[iso |-> Get(active, "datetimeISO"), now |-> consumers["display"].now]}
                  ELSE {})
    ELSE IF FocusShown
    THEN {[iso |-> Or(Get(FocusActive(milestones, consumers["Focus"].now), "datetimeISO"), ""),
           now |-> consumers["focus"].now]}
    ELSE {}

NonNegative(x) == x = NaN \/ x >= 0

\* C13: a countdown whose `now` has reached the targetTime reports days,
\* hours, minutes, seconds and total remaining zero with the past flag set;
\* one whose `now` is before the targetTime reports not past; and no field
\* of a countdown is negative.
C13_PastIsZero ==
    \A c \in CountdownCalls :
        LET r == useCountdown(c.iso, c.now)
            targetTime == GetTime(c.iso)
        IN /\ (targetTime # NaN /\ c.now >= targetTime) =>
                r = [days |-> 0, hours |-> 0, minutes |-> 0, seconds |-> 0, totalMs |-> 0,
                     isPast |-> TRUE]
           /\ (targetTime # NaN /\ c.now < targetTime) => ~r.isPast
           /\ NonNegative(r.days) /\ NonNegative(r.hours) /\ NonNegative(r.minutes)
           /\ NonNegative(r.seconds) /\ NonNegative(r.totalMs)

\* C13 witness: a countdown is mounted whose `now` is the very instant of
\* its target, and it has ticked since it was mounted.
C13_Witness ==
    \E c \in CountdownCalls : c.now = GetTime(c.iso) /\ c.now > 0

\* C14: a countdown with remaining = targetTime - now > 0 reports the
\* truncating decomposition of remaining: days, hours mod 24, minutes mod 60
\* and seconds mod 60, which add up to the whole seconds of remaining;
\* 3661 s is 0 days, 1 hour, 1 minute, 1 second.
C14_Decomposition ==
    \A c \in CountdownCalls :
        LET r == useCountdown(c.iso, c.now)
            remaining == GetTime(c.iso) - c.now
        IN (GetTime(c.iso) # NaN /\ remaining > 0) =>
             /\ r.days = remaining \div 86400000
             /\ r.hours = (remaining \div 3600000) % 24
             /\ r.minutes = (remaining \div 60000) % 60
             /\ r.seconds = (remaining \div 1000) % 60
             /\ r.hours \in 0..23 /\ r.minutes \in 0..59 /\ r.seconds \in 0..59
             /\ r.days * 86400 + r.hours * 3600 + r.minutes * 60 + r.seconds
                  = remaining \div 1000
             /\ (remaining = 3661000) =>
                  (r.days = 0 /\ r.hours = 1 /\ r.minutes = 1 /\ r.seconds = 1)

\* C14 witness: a mounted countdown has exactly 3661 s remaining.
C14_Witness ==
    \E c \in CountdownCalls : GetTime(c.iso) # NaN /\ GetTime(c.iso) - c.now = 3661000

\* The percentage memos of the screen that is shown: the milestone and the
\* `now` of the useCountdown whose totalMs the memo reads.
ProgressCalls ==
    IF DashboardShown
    THEN {[m |-> sortedTimeline[i], now |-> consumers[CircleKey(sortedTimeline[i].id)].now] :
            i \in 1..Len(sortedTimeline)}
    ELSE IF FocusShown /\ FocusActive(milestones, consumers["Focus"].now) # NoRec
    THEN {[m |-> FocusActive(milestones, consumers["Focus"].now), now |-> consumers["focus"].now]}
    ELSE {}

\* The progress a screen shows for a call of ProgressCalls.
Progress(c) ==
    percentage(c.m, useCountdown(Get(c.m, "datetimeISO"), c.now).totalMs)

\* C15: the progress shown for a milestone is a number in [0, 100]: 100
\* when the window targetTime - createdAt is not positive, else 100 when now
\* has reached the targetTime, else 0 when now is before createdAt.
C15_ProgressInRange ==
    \A c \in ProgressCalls :
        LET p == Progress(c)
            createdAt == GetTime(Get(c.m, "createdAt"))
            targetTime == Time(c.m)
        IN /\ p.n # NaN
           /\ p.n >= 0 /\ p.n <= p.d
           /\ (createdAt # NaN /\ targetTime # NaN) =>
                IF targetTime - createdAt <= 0 THEN p = Percent(1, 1)
                ELSE IF c.now >= targetTime THEN p = Percent(1, 1)
                ELSE (c.now < createdAt) => p = Percent(0, 1)

\* The invariants of the data model on a milestone.
WellFormed(m) ==
    /\ Truthy(Get(m, "id")) /\ Truthy(Get(m, "title")) /\ Truthy(Get(m, "icon"))
    /\ Truthy(Get(m, "status")) /\ Truthy(Get(m, "imageUrl"))
    /\ GetTime(Get(m, "datetimeISO")) # NaN
    /\ GetTime(Get(m, "createdAt")) # NaN

\* C16: when handleImport has taken a file whose payload is an array, every
\* element of the array has been normalized without a failure, and every
\* normalized milestone has a non-empty id, title, icon, status and image
\* reference and a targetTime and createdAt that parse.
C16_NormalizeTotal ==
    (impFile # Absent /\ Accepted(impFile)) =>
        /\ Len(impQueue) = Len(impFile.v.items)
        /\ \A i \in 1..Len(impQueue) : WellFormed(impQueue[i])

\* C17: every document of the store, and every milestone of the in-memory
\* set, carries a non-empty image reference.
C17_ImageRefStored ==
    /\ \A d \in store : Truthy(Get(d.data, "imageUrl"))
    /\ \A i \in 1..Len(milestones) : Truthy(Get(milestones[i], "imageUrl"))

\* The intervals of the mounted consumers.
Intervals == {consumers[k].interval : k \in DOMAIN consumers}

\* C18: the live tick timers are the intervals of the mounted consumers, one
\* for each: a consumer that is unmounted has its interval cleared, one that
\* is mounted starts an interval that was not live before, and with no
\* consumer mounted no timer is live.
C18_TimersMatchConsumers ==
    /\ [](/\ timers = Intervals
          /\ Cardinality(timers) = Cardinality(DOMAIN consumers))
    /\ [][\A k \in DOMAIN consumers' :
            (k \notin DOMAIN consumers \/ consumers'[k].interval # consumers[k].interval)
                => (consumers'[k].interval \notin timers /\ consumers'[k].interval \in timers')]_vars

\* C18 witness: Dashboard is shown again after Focus was shown and left,
\* with the intervals of Dashboard, a circle and a countdown live.
C18_Witness ==
    /\ DashboardShown /\ mounts >= 3
    /\ Cardinality(timers) >= 3

\* C19: on one page, a step from Ready with a set of at least one pushed
\* milestone does not lead to Errored, and the error is set only while the
\* in-memory set is empty.
C19_ErrorOnlyWhenEmpty ==
    [][/\ (Phase = "Ready" /\ Len(milestones) > 0 /\ startups' = startups)
            => Phase' # "Errored"
       /\ (~error /\ error') => Len(milestones) = 0]_vars

====
